---- MODULE Spec2Model ----
(***************************************************************************)
(* A model of the conditional GAN training pipeline:                       *)
(*   - the adversarial training loop of pretrain.py (main) and of          *)
(*     train_slurm.py (train), statement group by statement group;         *)
(*   - the CelebADataset class of datasets/celeba.py.                      *)
(* Tensors are abstracted to what the claims are about: the set of         *)
(* networks whose parameters an autograd graph reaches, the accumulated    *)
(* gradient of each network as a set of loss contributions, and the        *)
(* parameters of each network as the sequence of gradients applied.        *)
(***************************************************************************)
EXTENDS Integers, Sequences, FiniteSets, TLC

\* ------------------------------------------------------------------ bounds
MaxDatasetSize == 4
MaxBatchSize == 2
MaxEpochs == 3
MaxSaveFrequency == 3
MaxRows == 3
MaxRowsDownload == 1

\* ------------------------------------------------------- program constants
real_label == 1
fake_label == 0

Scripts == {"pretrain", "train_slurm"}
Nets == {"netD", "netG"}

VARIABLES
    \* command line / configuration
    script,          \* which of the two training scripts runs
    dataset_size,    \* len(dataset)
    batch_size,      \* args.batch_size
    niter,           \* args.niter (pretrain.py), args.epochs (train_slurm.py)
    save_frequency,  \* args.save_frequency
    dry_run,         \* args.dry_run (pretrain.py only)
    \* control
    pc,              \* position in the training function
    epoch,           \* loop variable of the outer for
    it_pos,          \* position of the enumerate(dataloader) iterator
    i_step,          \* loop variable of the inner for
    \* autograd / optimizer state
    grad,            \* grad[n]: contributions accumulated on n's parameters
    params,          \* params[n]: the gradients applied to n, in order
    label,           \* the target-label buffer
    fake_images,     \* the generator output of the current batch
    \* sinks
    current_iter,    \* the local variable current_iter
    writer,          \* the scalar log: sequence of <<tag, step>>
    printed,         \* number of progress lines printed
    fs,              \* the files written: path -> content
    \* history
    batches,         \* number of batches fetched so far
    steps,           \* optimizer steps and generator-loss computations, in order
    saves,           \* save events, in order
    \* the metadata files under the dataset root
    partition,       \* list_eval_partition.csv: partition[r] of image r
    attr_csv,        \* list_attr_celeba.csv: attr_csv[r][c] in {-1, 1}
    \* the CelebADataset object
    ds_pc,           \* position in the life of the object
    error,           \* the exception raised, or NoError
    split,           \* self.split
    target_type,     \* self.target_type
    target_transform,\* whether self.target_transform is not None
    filename,        \* self.filename
    bbox,            \* self.bbox
    landmarks_align, \* self.landmarks_align
    attr,            \* self.attr
    num_classes,     \* self.num_classes
    \* __getitem__
    index,           \* the index argument
    opened,          \* image files opened so far
    t_pos,           \* position of the loop over self.target_type
    target,          \* the local list target
    result,          \* the returned (X, target) pair
    \* download_from_kaggle
    files,           \* the label files present under the dataset root
    download,        \* the download argument of __init__
    downloaded,      \* whether the remote download was performed
    absent_at_check  \* whether a label file was absent when the check ran

trainVars == <<script, dataset_size, batch_size, niter, save_frequency, dry_run,
               pc, epoch, it_pos, i_step, grad, params, label, fake_images,
               current_iter, writer, printed, fs, batches, steps, saves>>

dataVars == <<partition, attr_csv, ds_pc, error, split, target_type, target_transform,
              filename, bbox, landmarks_align, attr, num_classes,
              index, opened, t_pos, target, result,
              files, download, downloaded, absent_at_check>>

\* The variables of download_from_kaggle.
downloadVars == <<files, download, downloaded, absent_at_check>>

vars == <<trainVars, dataVars>>

\* ----------------------------------------------------------------- helpers
Min(a, b) == IF a <= b THEN a ELSE b

\* Mutant: the incomplete last batch is dropped.
LenDataloaderDropLast == dataset_size \div batch_size

\* len(dataloader): DataLoader without drop_last yields ceil(N / batch_size) batches.
LenDataloader == (dataset_size + batch_size - 1) \div batch_size

\* real_images.shape[0] of batch i: the last batch holds the remainder.
BatchShape(i) == Min(batch_size, dataset_size - i * batch_size)

\* torch.full((batch_size,), value)
Full(n, value) == [size |-> n, value |-> value]

\* Mutant: the refill is lost.
FillNothing(buf, value) == buf

\* label.fill_(value): in place, the size stays
Fill(buf, value) == [buf EXCEPT !.value = value]

NoTensor == [graph |-> {}, batch |-> 0]

\* netG(conditional_noise): the output's graph reaches the generator's parameters.
NetG(b) == [graph |-> {"netG"}, batch |-> b]

\* Mutant: the generator output is fed to the discriminator without detach().
DetachNone(t) == t

\* tensor.detach(): same values, cut from the graph
Detach(t) == [t EXCEPT !.graph = {}]

\* netD(torch.cat((images, image_one_hot_labels), dim=1)): the output's graph
\* reaches the discriminator's parameters and whatever the images reach.
NetD(images) == [graph |-> images.graph \cup {"netD"}, batch |-> images.batch]

\* criterion(output, label).backward(): every network the graph reaches
\* accumulates the loss's contribution.
Backward(g, name, output, lbl, b) ==
    [n \in Nets |->
        IF n \in output.graph
        THEN g[n] \cup {[loss |-> name, batch |-> b, target |-> lbl.value,
                         size |-> lbl.size]}
        ELSE g[n]]

\* Mutant: the gradients are not cleared.
ZeroGradNone(g, net) == g

\* net.zero_grad()
ZeroGrad(g, net) == [g EXCEPT ![net] = {}]

\* optimizer.step() of the optimizer built over net.parameters()
OptimizerStep(p, g, net) == [p EXCEPT ![net] = Append(p[net], g[net])]

\* Mutant: the epoch is not counted from zero.
CurrentIterEpoch(e, i) == e * LenDataloader + i

\* current_iter = (epoch - 1) * len(dataloader) + i_step
CurrentIter(e, i) == (e - 1) * LenDataloader + i

\* The five scalars logged for every batch.
BatchTags == <<"Loss/D", "Loss/G", "Probability/D(x)", "Probability/D(G(z_1))",
               "Probability/D(G(z_2))">>

\* The three image metrics pretrain.py logs at a save event.
MetricTags == <<"Metric/IS", "Metric/FID", "Metric/KID">>

\* writer.add_scalar(tag, value, step) for each tag of tags, in order
AddScalars(w, tags, step) == w \o [k \in 1..Len(tags) |-> <<tags[k], step>>]

\* Mutant: the save test counts batches from one.
SaveDueOneBased(i) == (i + 1) % save_frequency = 0

\* if i_step % args.save_frequency == 0
SaveDue(i) == i % save_frequency = 0

\* A file path <run-dir>/iteration<dir>/<file>, where <file> is iteration<n>.png
\* for the sample grid (n >= 0) or a fixed checkpoint name (n = NoNumber);
\* dir = NoNumber is the run directory itself.
NoNumber == -1
File(dir, file, n) == [dir |-> dir, file |-> file, n |-> n]

\* Mutant: the directory is named after the step within the epoch.
PretrainDirStep(cur, i) == i

\* Path(args.logdir).joinpath(f"iteration{current_iter}")     (pretrain.py)
PretrainDir(cur, i) == cur
\* f"{path}/iteration{i_step}.png"                              (pretrain.py)
PretrainPng(cur, i) == File(PretrainDir(cur, i), "iteration.png", i)
\* f"{path}/netG.pth", f"{path}/netD.pth"                       (pretrain.py)
PretrainCheckpoint(cur, i, net) == File(PretrainDir(cur, i), net, NoNumber)

\* path = Path(log_dir); f"{path}/iteration{current_iter}.png"  (train_slurm.py)
SlurmPng(cur, i) == File(NoNumber, "iteration.png", cur)

\* vutils.save_image / torch.save: create or overwrite the file at path
WriteFile(f, path, content) ==
    [q \in DOMAIN f \cup {path} |-> IF q = path THEN content ELSE f[q]]

\* ------------------------------------------------------------ CelebADataset
\* assert self.num_classes == 40
NumClasses == 40

NoError == "none"

\* split_map
SplitMap == [train |-> 0, valid |-> 1, test |-> 2, all |-> NoNumber]
ValidSplits == {"train", "valid", "test", "all"}

\* The split arguments tried: the four names, one in upper case, one unknown.
SplitArgs == ValidSplits \cup {"VALID", "val"}

\* split.lower()
Lower(s) == IF s = "VALID" THEN "valid" ELSE s

\* The target_type arguments tried; a bare string is a one-element tuple
\* with list |-> FALSE.
TargetTypeArgs ==
    { [list |-> FALSE, v |-> <<"attr">>],
      [list |-> FALSE, v |-> <<"unknown">>],
      [list |-> TRUE,  v |-> <<>>],
      [list |-> TRUE,  v |-> <<"attr", "bbox">>],
      [list |-> TRUE,  v |-> <<"landmarks", "unknown">>] }

\* if isinstance(target_type, list): self.target_type = target_type
\* else: self.target_type = [target_type]
TargetTypeList(a) == IF a.list THEN a.v ELSE <<a.v[1]>>

\* One row of list_attr_celeba.csv with ncols columns: all -1, all +1, or
\* alternating.
AttrRow(k, ncols) ==
    [c \in 1..ncols |-> IF k % 3 = 0 THEN -1
                        ELSE IF k % 3 = 1 THEN 1
                        ELSE IF c % 2 = 1 THEN 1 ELSE -1]

\* Mutant: the partition test is <= instead of ==.
MaskUpTo(part, split_, r) == split_ = NoNumber \/ part[r] <= split_

\* mask = slice(None) if split_ is None else (splits['partition'] == split_)
Mask(part, split_, r) == split_ = NoNumber \/ part[r] = split_

\* splits[mask].index.values: the rows the mask keeps, in file order
RECURSIVE SelectRows(_, _, _)
SelectRows(part, split_, r) ==
    IF r > Len(part) THEN <<>>
    ELSE (IF Mask(part, split_, r) THEN <<r>> ELSE <<>>)
         \o SelectRows(part, split_, r + 1)

\* Mutant: the shift by one is forgotten.
MapAttrNoShift(v) == v \div 2

\* self.attr = (self.attr + 1) // 2
MapAttr(v) == (v + 1) \div 2

\* torch.as_tensor(attr[mask].values), then the map to {0, 1}
AttrTensor(csv, rows) ==
    [k \in 1..Len(rows) |-> [c \in DOMAIN csv[rows[k]] |-> MapAttr(csv[rows[k]][c])]]

\* The bounding box / landmark row of image r, abstracted to the row it is.
MetaRow(name, r) == <<name, r>>

\* len(attr.columns)
NumColumns(csv) == IF Len(csv) = 0 THEN NumClasses ELSE Len(csv[1])

\* __len__
DatasetLen == Len(attr)

\* label_files of download_from_kaggle, in the order of the list
LabelFiles == <<"list_attr_celeba.csv", "list_bbox_celeba.csv",
                "list_eval_partition.csv", "list_landmarks_align_celeba.csv">>

LabelFileSet == {LabelFiles[k] : k \in 1..Len(LabelFiles)}

\* files_exist = False
\* for label_file in label_files:
\*     if os.path.isfile(...): files_exist = True
\*     else: files_exist = False
\* the value of files_exist after the first k files, starting from acc
RECURSIVE FilesExistLoop(_, _, _)
FilesExistLoop(present, k, acc) ==
    IF k > Len(LabelFiles) THEN acc
    ELSE FilesExistLoop(present, k + 1, LabelFiles[k] \in present)

FilesExist(present) == FilesExistLoop(present, 1, FALSE)

\* Whether __init__ reaches  if download:  (the RuntimeError comes first).
ReachesDownload(a_type, a_transform) ==
    ~(TargetTypeList(a_type) = <<>> /\ a_transform)

\* Whether download_from_kaggle runs the remote download.
RunsDownload(a_type, a_transform, a_download, present) ==
    ReachesDownload(a_type, a_transform) /\ a_download /\ ~FilesExist(present)

\* The label files present after the download step of __init__: the remote
\* download fetches every label file.
FilesAfter(a_type, a_transform, a_download, present) ==
    IF RunsDownload(a_type, a_transform, a_download, present)
    THEN LabelFileSet
    ELSE present

\* The error __init__ raises for these arguments, or NoError; present are the
\* label files under the root when pd.read_csv runs.
InitError(a_split, a_type, a_transform, csv, present) ==
    IF TargetTypeList(a_type) = <<>> /\ a_transform THEN "RuntimeError"
    ELSE IF Lower(a_split) \notin ValidSplits THEN "ValueError"
    ELSE IF present # LabelFileSet THEN "FileNotFoundError"
    ELSE IF NumColumns(csv) # NumClasses THEN "AssertionError"
    ELSE NoError

DataIdle ==
    /\ partition = <<>>
    /\ attr_csv = <<>>
    /\ ds_pc = "idle"
    /\ error = NoError
    /\ split = "train"
    /\ target_type = <<>>
    /\ target_transform = FALSE
    /\ filename = <<>>
    /\ bbox = <<>>
    /\ landmarks_align = <<>>
    /\ attr = <<>>
    /\ num_classes = 0
    /\ index = 0
    /\ opened = {}
    /\ t_pos = 0
    /\ target = <<>>
    /\ result = <<>>
    /\ files = {}
    /\ download = FALSE
    /\ downloaded = FALSE
    /\ absent_at_check = FALSE

\* The dataset root before construction: the metadata tables, no object yet.
\* The tables are what the label files hold, or will hold once fetched; a root
\* with a label file missing is tried with tables of up to MaxRowsDownload rows.
DataInit ==
    /\ \E n \in 0..MaxRows, offset \in 0..2, extra \in 0..1 :
        /\ partition \in [1..n -> {0, 1, 2}]
        /\ attr_csv = [r \in 1..n |-> AttrRow(r + offset, NumClasses + extra)]
    /\ ds_pc = "new"
    /\ error = NoError
    /\ split = "train"
    /\ target_type = <<>>
    /\ target_transform = FALSE
    /\ filename = <<>>
    /\ bbox = <<>>
    /\ landmarks_align = <<>>
    /\ attr = <<>>
    /\ num_classes = 0
    /\ index = 0
    /\ opened = {}
    /\ t_pos = 0
    /\ target = <<>>
    /\ result = <<>>
    /\ files \in SUBSET LabelFileSet
    /\ files # LabelFileSet => Len(partition) <= MaxRowsDownload
    /\ download = FALSE
    /\ downloaded = FALSE
    /\ absent_at_check = FALSE

\* The trainer, not running.
TrainIdle ==
    /\ script = "train_slurm"
    /\ dataset_size = 1
    /\ batch_size = 1
    /\ niter = 1
    /\ save_frequency = 1
    /\ dry_run = FALSE
    /\ pc = "idle"
    /\ epoch = 0
    /\ it_pos = 0
    /\ i_step = 0
    /\ grad = [n \in Nets |-> {}]
    /\ params = [n \in Nets |-> <<>>]
    /\ label = Full(0, real_label)
    /\ fake_images = NoTensor
    /\ current_iter = 0
    /\ writer = <<>>
    /\ printed = 0
    /\ fs = <<>>
    /\ batches = 0
    /\ steps = <<>>
    /\ saves = <<>>

DatasetInit == TrainIdle /\ DataInit

\* CelebADataset.__init__(root, split, target_type, transform, target_transform)
Construct ==
    /\ ds_pc = "new"
    /\ \E a_split \in SplitArgs, a_type \in TargetTypeArgs, a_transform \in BOOLEAN,
          a_download \in BOOLEAN :
        LET after == FilesAfter(a_type, a_transform, a_download, files)
            err == InitError(a_split, a_type, a_transform, attr_csv, after)
            split_ == SplitMap[Lower(a_split)]
            rows == SelectRows(partition, split_, 1)
            \* the attributes raised before a failing statement are set
            reached_split == err \notin {"RuntimeError"}
            reached_read == err \notin {"RuntimeError", "ValueError", "FileNotFoundError"}
        IN  /\ split' = a_split
            /\ target_type' = TargetTypeList(a_type)
            /\ target_transform' = a_transform
            /\ error' = err
            /\ ds_pc' = IF err = NoError THEN "constructed" ELSE "init_raised"
            /\ filename' = IF reached_read THEN rows ELSE <<>>
            /\ bbox' = IF reached_read
                       THEN [k \in 1..Len(rows) |-> MetaRow("bbox", rows[k])]
                       ELSE <<>>
            /\ landmarks_align' = IF reached_read
                       THEN [k \in 1..Len(rows) |-> MetaRow("landmarks", rows[k])]
                       ELSE <<>>
            /\ attr' = IF reached_read THEN AttrTensor(attr_csv, rows) ELSE <<>>
            /\ num_classes' = IF reached_read THEN NumColumns(attr_csv) ELSE 0
            /\ download' = a_download
            /\ downloaded' = RunsDownload(a_type, a_transform, a_download, files)
            /\ absent_at_check' = (/\ ReachesDownload(a_type, a_transform)
                                   /\ a_download
                                   /\ files # LabelFileSet)
            /\ files' = after
    /\ UNCHANGED <<partition, attr_csv, index, opened, t_pos, target, result>>
    /\ UNCHANGED trainVars

\* __getitem__: X = PIL.Image.open(os.path.join(root, ..., self.filename[index]))
GetItemOpen ==
    /\ ds_pc = "constructed"
    /\ \E i \in 0..(DatasetLen - 1) :
        /\ index' = i
        /\ opened' = opened \cup {filename[i + 1]}
    /\ target' = <<>>
    /\ t_pos' = 1
    /\ ds_pc' = "target_loop"
    /\ UNCHANGED <<partition, attr_csv, error, split, target_type, target_transform,
                   filename, bbox, landmarks_align, attr, num_classes, result>>
    /\ UNCHANGED downloadVars
    /\ UNCHANGED trainVars

\* __getitem__: one iteration of  for t in self.target_type
GetItemTarget ==
    /\ ds_pc = "target_loop"
    /\ t_pos <= Len(target_type)
    /\ LET t == target_type[t_pos]
       IN  IF t = "attr"
           THEN /\ target' = Append(target, attr[index + 1])
                /\ t_pos' = t_pos + 1
                /\ UNCHANGED <<ds_pc, error>>
           ELSE IF t = "bbox"
           THEN /\ target' = Append(target, bbox[index + 1])
                /\ t_pos' = t_pos + 1
                /\ UNCHANGED <<ds_pc, error>>
           ELSE IF t = "landmarks"
           THEN /\ target' = Append(target, landmarks_align[index + 1])
                /\ t_pos' = t_pos + 1
                /\ UNCHANGED <<ds_pc, error>>
           ELSE /\ error' = "ValueError"
                /\ ds_pc' = "getitem_raised"
                /\ UNCHANGED <<target, t_pos>>
    /\ UNCHANGED <<partition, attr_csv, split, target_type, target_transform,
                   filename, bbox, landmarks_align, attr, num_classes,
                   index, opened, result>>
    /\ UNCHANGED downloadVars
    /\ UNCHANGED trainVars

\* __getitem__: after the loop, the transforms and  return X, target
GetItemReturn ==
    /\ ds_pc = "target_loop"
    /\ t_pos > Len(target_type)
    /\ result' = [X |-> filename[index + 1],
                  none |-> target = <<>>,
                  transformed |-> target # <<>> /\ target_transform,
                  target |-> target]
    /\ ds_pc' = "returned"
    /\ UNCHANGED <<partition, attr_csv, error, split, target_type, target_transform,
                   filename, bbox, landmarks_align, attr, num_classes,
                   index, opened, t_pos, target>>
    /\ UNCHANGED downloadVars
    /\ UNCHANGED trainVars

DatasetNext ==
    \/ Construct
    \/ GetItemOpen
    \/ GetItemTarget
    \/ GetItemReturn

DatasetSpec == DatasetInit /\ [][DatasetNext]_vars

\* ------------------------------------------------------------------- Init
TrainInit ==
    /\ script \in Scripts
    /\ dataset_size \in 1..MaxDatasetSize
    /\ batch_size \in 1..MaxBatchSize
    /\ niter \in 1..MaxEpochs
    /\ save_frequency \in 1..MaxSaveFrequency
    /\ dry_run \in (IF script = "pretrain" THEN BOOLEAN ELSE {FALSE})
    /\ pc = "start"
    /\ epoch = 0
    /\ it_pos = 0
    /\ i_step = 0
    /\ grad = [n \in Nets |-> {}]
    /\ params = [n \in Nets |-> <<>>]
    /\ label = Full(0, real_label)
    /\ fake_images = NoTensor
    /\ current_iter = 0
    /\ writer = <<>>
    /\ printed = 0
    /\ fs = <<>>
    /\ batches = 0
    /\ steps = <<>>
    /\ saves = <<>>

Init == TrainInit /\ DataIdle

\* ---------------------------------------------------------------- actions
\* if args.dry_run: args.niter = 1
Start ==
    /\ pc = "start"
    /\ niter' = IF dry_run THEN 1 ELSE niter
    /\ pc' = "for_epoch"
    /\ UNCHANGED dataVars
    /\ UNCHANGED <<script, dataset_size, batch_size, save_frequency, dry_run,
                   epoch, it_pos, i_step, grad, params, label, fake_images,
                   current_iter, writer, printed, fs, batches, steps, saves>>

\* for epoch in range(1, niter + 1):
ForEpoch ==
    /\ pc = "for_epoch"
    /\ IF epoch < niter
       THEN /\ epoch' = epoch + 1
            /\ it_pos' = 0
            /\ pc' = "for_batch"
       ELSE /\ pc' = "done"
            /\ UNCHANGED <<epoch, it_pos>>
    /\ UNCHANGED dataVars
    /\ UNCHANGED <<script, dataset_size, batch_size, niter, save_frequency, dry_run,
                   i_step, grad, params, label, fake_images,
                   current_iter, writer, printed, fs, batches, steps, saves>>

\* for i_step, (real_images, labels) in enumerate(dataloader):
ForBatch ==
    /\ pc = "for_batch"
    /\ IF it_pos < LenDataloader
       THEN /\ i_step' = it_pos
            /\ it_pos' = it_pos + 1
            /\ batches' = batches + 1
            /\ pc' = "zero_grad_D"
       ELSE /\ pc' = "for_epoch"
            /\ UNCHANGED <<i_step, it_pos, batches>>
    /\ UNCHANGED dataVars
    /\ UNCHANGED <<script, dataset_size, batch_size, niter, save_frequency, dry_run,
                   epoch, grad, params, label, fake_images,
                   current_iter, writer, printed, fs, steps, saves>>

\* netD.zero_grad(); label = torch.full((batch_size,), real_label)
ZeroGradD ==
    /\ pc = "zero_grad_D"
    /\ grad' = ZeroGrad(grad, "netD")
    /\ label' = Full(BatchShape(i_step), real_label)
    /\ pc' = "errD_real"
    /\ UNCHANGED dataVars
    /\ UNCHANGED <<script, dataset_size, batch_size, niter, save_frequency, dry_run,
                   epoch, it_pos, i_step, params, fake_images,
                   current_iter, writer, printed, fs, batches, steps, saves>>

\* output = netD(real); errD_real = criterion(output, label); errD_real.backward()
ErrDReal ==
    /\ pc = "errD_real"
    /\ grad' = Backward(grad, "errD_real", NetD([graph |-> {}, batch |-> batches]),
                        label, batches)
    /\ pc' = "errD_fake"
    /\ UNCHANGED dataVars
    /\ UNCHANGED <<script, dataset_size, batch_size, niter, save_frequency, dry_run,
                   epoch, it_pos, i_step, params, label, fake_images,
                   current_iter, writer, printed, fs, batches, steps, saves>>

\* Mutant: optimizerD.step() is left out.
ErrDFakeNoStep ==
    /\ pc = "errD_fake"
    /\ fake_images' = NetG(batches)
    /\ label' = Fill(label, fake_label)
    /\ grad' = Backward(grad, "errD_fake", NetD(Detach(fake_images')), label', batches)
    /\ pc' = "zero_grad_G"
    /\ UNCHANGED dataVars
    /\ UNCHANGED <<script, dataset_size, batch_size, niter, save_frequency, dry_run,
                   epoch, it_pos, i_step, params,
                   current_iter, writer, printed, fs, batches, steps, saves>>

\* fake_images = netG(conditional_noise); label.fill_(fake_label);
\* output = netD(fake_images.detach()); errD_fake = criterion(output, label);
\* errD_fake.backward()
ErrDFake ==
    /\ pc = "errD_fake"
    /\ fake_images' = NetG(batches)
    /\ label' = Fill(label, fake_label)
    /\ grad' = Backward(grad, "errD_fake", NetD(Detach(fake_images')), label', batches)
    /\ pc' = "optimizerD"
    /\ UNCHANGED dataVars
    /\ UNCHANGED <<script, dataset_size, batch_size, niter, save_frequency, dry_run,
                   epoch, it_pos, i_step, params,
                   current_iter, writer, printed, fs, batches, steps, saves>>

\* errD = errD_real + errD_fake; optimizerD.step()
OptimizerD ==
    /\ pc = "optimizerD"
    /\ params' = OptimizerStep(params, grad, "netD")
    /\ steps' = Append(steps, <<"optimizerD.step", batches>>)
    /\ pc' = "zero_grad_G"
    /\ UNCHANGED dataVars
    /\ UNCHANGED <<script, dataset_size, batch_size, niter, save_frequency, dry_run,
                   epoch, it_pos, i_step, grad, label, fake_images,
                   current_iter, writer, printed, fs, batches, saves>>

\* netG.zero_grad(); label.fill_(real_label)
ZeroGradG ==
    /\ pc = "zero_grad_G"
    /\ grad' = ZeroGrad(grad, "netG")
    /\ label' = Fill(label, real_label)
    /\ pc' = "errG"
    /\ UNCHANGED dataVars
    /\ UNCHANGED <<script, dataset_size, batch_size, niter, save_frequency, dry_run,
                   epoch, it_pos, i_step, params, fake_images,
                   current_iter, writer, printed, fs, batches, steps, saves>>

\* output = netD(fake_images); errG = criterion(output, label); errG.backward()
ErrG ==
    /\ pc = "errG"
    /\ grad' = Backward(grad, "errG", NetD(fake_images), label, batches)
    /\ steps' = Append(steps, <<"errG", batches>>)
    /\ pc' = "optimizerG"
    /\ UNCHANGED dataVars
    /\ UNCHANGED <<script, dataset_size, batch_size, niter, save_frequency, dry_run,
                   epoch, it_pos, i_step, params, label, fake_images,
                   current_iter, writer, printed, fs, batches, saves>>

\* optimizerG.step()
OptimizerG ==
    /\ pc = "optimizerG"
    /\ params' = OptimizerStep(params, grad, "netG")
    /\ steps' = Append(steps, <<"optimizerG.step", batches>>)
    /\ pc' = "log"
    /\ UNCHANGED dataVars
    /\ UNCHANGED <<script, dataset_size, batch_size, niter, save_frequency, dry_run,
                   epoch, it_pos, i_step, grad, label, fake_images,
                   current_iter, writer, printed, fs, batches, saves>>

\* current_iter = ...; writer.add_scalar(...) x 5
Log ==
    /\ pc = "log"
    /\ current_iter' = CurrentIter(epoch, i_step)
    /\ writer' = AddScalars(writer, BatchTags, current_iter')
    /\ pc' = "save"
    /\ UNCHANGED dataVars
    /\ UNCHANGED <<script, dataset_size, batch_size, niter, save_frequency, dry_run,
                   epoch, it_pos, i_step, grad, params, label, fake_images,
                   printed, fs, batches, steps, saves>>

\* pretrain.py: the save block and the dry-run break that ends the loop body
SavePretrain ==
    /\ pc = "save"
    /\ script = "pretrain"
    /\ IF SaveDue(i_step)
       THEN LET png == PretrainPng(current_iter, i_step)
                ckG == PretrainCheckpoint(current_iter, i_step, "netG")
                ckD == PretrainCheckpoint(current_iter, i_step, "netD")
            IN  /\ printed' = printed + 1
                /\ writer' = AddScalars(writer, MetricTags, current_iter)
                /\ fs' = WriteFile(WriteFile(WriteFile(fs, png, params["netG"]),
                                             ckG, params["netG"]),
                                   ckD, params["netD"])
                /\ saves' = Append(saves, [iter |-> batches - 1, png |-> png,
                                           ckpts |-> {ckG, ckD}])
       ELSE UNCHANGED <<printed, writer, fs, saves>>
    /\ pc' = IF dry_run THEN "for_epoch" ELSE "for_batch"
    /\ UNCHANGED dataVars
    /\ UNCHANGED <<script, dataset_size, batch_size, niter, save_frequency, dry_run,
                   epoch, it_pos, i_step, grad, params, label, fake_images,
                   current_iter, batches, steps>>

\* train_slurm.py: the save block (no metrics, no checkpoints, no dry run)
SaveSlurm ==
    /\ pc = "save"
    /\ script = "train_slurm"
    /\ IF SaveDue(i_step)
       THEN LET png == SlurmPng(current_iter, i_step)
            IN  /\ printed' = printed + 1
                /\ fs' = WriteFile(fs, png, params["netG"])
                /\ saves' = Append(saves, [iter |-> batches - 1, png |-> png,
                                           ckpts |-> {}])
       ELSE UNCHANGED <<printed, fs, saves>>
    /\ pc' = "for_batch"
    /\ UNCHANGED dataVars
    /\ UNCHANGED <<script, dataset_size, batch_size, niter, save_frequency, dry_run,
                   epoch, it_pos, i_step, grad, params, label, fake_images,
                   current_iter, writer, batches, steps>>

Next ==
    \/ Start
    \/ ForEpoch
    \/ ForBatch
    \/ ZeroGradD
    \/ ErrDReal
    \/ ErrDFake
    \/ OptimizerD
    \/ ZeroGradG
    \/ ErrG
    \/ OptimizerG
    \/ Log
    \/ SavePretrain
    \/ SaveSlurm

Spec == Init /\ [][Next]_vars

\* The single thread of control always executes its next statement.
FairSpec == Spec /\ WF_vars(Next)

\* ================================================================== claims

\* The kinds of entry of steps, in the order one batch produces them.
StepKinds == <<"optimizerD.step", "errG", "optimizerG.step">>

\* The number of entries of steps of kind k.
CountSteps(k) == Cardinality({j \in 1..Len(steps) : steps[j][1] = k})

\* C1: in every batch the discriminator's optimizer step comes before the
\* generator's loss and the generator's optimizer step, and the generator's
\* step of batch n comes before the discriminator's step of batch n+1: the
\* history is D, errG, G of batch 1, then D, errG, G of batch 2, and so on,
\* and a finished batch has contributed all three.
C1_StrictOrder ==
    /\ \A k \in 1..Len(steps) :
          steps[k] = <<StepKinds[((k - 1) % 3) + 1], ((k - 1) \div 3) + 1>>
    /\ pc \in {"log", "save", "for_batch", "for_epoch", "done"}
          => Len(steps) = 3 * batches
    /\ pc \in {"zero_grad_D", "errD_real", "errD_fake", "optimizerD"}
          => Len(steps) = 3 * (batches - 1)

\* C1 witness: two whole batches have run.
C1_Witness == pc = "log" /\ batches = 2 /\ Len(steps) = 6

\* A statement of the discriminator step leaves the generator as it was.
DiscriminatorStepFrame ==
    pc \in {"zero_grad_D", "errD_real", "errD_fake", "optimizerD"}
        => (params'["netG"] = params["netG"] /\ grad'["netG"] = grad["netG"])

\* C2: no statement of the discriminator step (zero_grad, the two losses and
\* their backward passes, optimizerD.step) changes the generator's parameters
\* or the generator's accumulated gradient.
C2_GeneratorIsolated == [][DiscriminatorStepFrame]_vars

\* C2 witness: the discriminator step of a second batch has just run, while
\* the generator still holds the gradient of the first batch.
C2_Witness ==
    /\ pc = "zero_grad_G"
    /\ batches = 2
    /\ Len(params["netD"]) = 2
    /\ grad["netG"] # {}

\* C3: a dry run of pretrain.py ends, and ends having made exactly one
\* discriminator step, one generator step, one progress line and one save
\* event.
C3_DryRunOnce ==
    (script = "pretrain" /\ dry_run)
        => <>[](/\ pc = "done"
                /\ CountSteps("optimizerD.step") = 1
                /\ CountSteps("optimizerG.step") = 1
                /\ printed = 1
                /\ Len(saves) = 1)

\* C3 witness: a dry run over a dataset of several batches, with a save
\* frequency above one, has ended.
C3_Witness ==
    /\ script = "pretrain" /\ dry_run /\ pc = "done"
    /\ LenDataloader > 1 /\ save_frequency > 1
    /\ printed = 1

\* The rows a dataset of the given split selects.
SplitRows(s) ==
    LET rows == SelectRows(partition, SplitMap[s], 1)
    IN  {rows[k] : k \in 1..Len(rows)}

SplitLen(s) == Len(SelectRows(partition, SplitMap[s], 1))

Constructed == ds_pc \in {"constructed", "target_loop", "getitem_raised", "returned"}

\* The target types __getitem__ recognizes.
RecognizedTypes == {"attr", "bbox", "landmarks"}

HasUnrecognizedType == \E k \in 1..Len(target_type) : target_type[k] \notin RecognizedTypes

\* C4: a dataset whose target-type list holds an unrecognized type never
\* opens an image file.
C4_ErrorBeforeOpen == HasUnrecognizedType => opened = {}

\* C5: once construction has succeeded, no index access raises a
\* configuration error.
C5_ErrorsAtConstruction == Constructed => error = NoError

\* C6: train, valid and test select pairwise disjoint rows, their union is
\* what "all" selects, "all" selects every metadata row, the lengths add up,
\* and a constructed dataset's length is the number of rows of its split.
C6_PartitionsDisjoint ==
    /\ \A s1, s2 \in {"train", "valid", "test"} :
          s1 # s2 => SplitRows(s1) \cap SplitRows(s2) = {}
    /\ SplitRows("train") \cup SplitRows("valid") \cup SplitRows("test") = SplitRows("all")
    /\ SplitLen("train") + SplitLen("valid") + SplitLen("test") = SplitLen("all")
    /\ SplitLen("all") = Len(partition)
    /\ Constructed =>
          /\ DatasetLen = SplitLen(Lower(split))
          /\ DatasetLen = Cardinality({filename[k] : k \in 1..Len(filename)})
          /\ \A k \in 1..Len(filename) : filename[k] \in SplitRows(Lower(split))

\* C6 witness: the whole table is selected, and each of the three partitions
\* holds a row.
C6_Witness ==
    /\ ds_pc = "constructed" /\ split = "all"
    /\ {partition[r] : r \in 1..Len(partition)} = {0, 1, 2}
    /\ DatasetLen = Len(partition)

\* C7: every attribute vector of a constructed dataset has num_classes = 40
\* entries, each 0 where the file holds -1 and 1 where it holds +1, and the
\* vector __getitem__ hands out for target type "attr" is that vector.
C7_AttrBinary ==
    Constructed =>
        /\ num_classes = NumClasses
        /\ \A k \in 1..DatasetLen :
              /\ DOMAIN attr[k] = 1..num_classes
              /\ \A c \in DOMAIN attr[k] :
                    /\ attr[k][c] \in {0, 1}
                    /\ attr[k][c] = (IF attr_csv[filename[k]][c] = 1 THEN 1 ELSE 0)
        /\ (ds_pc = "returned" /\ target_type = <<"attr">>) =>
              /\ result.target = <<attr[index + 1]>>
              /\ Len(result.target[1]) = NumClasses
              /\ \A c \in 1..Len(result.target[1]) : result.target[1][c] \in {0, 1}

\* C7 witness: an attribute vector holding both values has been handed out.
C7_Witness ==
    /\ ds_pc = "returned" /\ target_type = <<"attr">>
    /\ {result.target[1][c] : c \in 1..Len(result.target[1])} = {0, 1}

\* C8: at every save event of pretrain.py the sample grid is
\* iteration<N>/iteration<N>.png with both N the training iteration, and both
\* snapshots are written into that iteration<N> directory.
C8_SamePathNumber ==
    script = "pretrain" =>
        \A k \in 1..Len(saves) :
            /\ saves[k].png.dir = saves[k].iter
            /\ saves[k].png.n = saves[k].png.dir
            /\ Cardinality(saves[k].ckpts) = 2
            /\ \A c \in saves[k].ckpts : c.dir = saves[k].png.dir

\* C9: any two consecutive save events are save_frequency batches apart.
C9_EveryKBatches ==
    \A k \in 2..Len(saves) : saves[k].iter - saves[k - 1].iter = save_frequency

\* A step of a pretraining run keeps every file on disk, with its content.
FilesKept ==
    script = "pretrain"
        => (\A f \in DOMAIN fs : f \in DOMAIN fs' /\ fs'[f] = fs[f])

\* C10: in a pretraining run no file once written is overwritten or deleted
\* by a later step, so the set of checkpoint paths only grows.
C10_NeverOverwritten == [][FilesKept]_vars

\* C10 witness: two save events of different epochs at the same step of
\* their epoch, each with its own two checkpoints on disk.
C10_Witness ==
    /\ script = "pretrain"
    /\ \E j, k \in 1..Len(saves) :
          /\ j < k
          /\ saves[j].png.n = saves[k].png.n
          /\ saves[j].ckpts \cap saves[k].ckpts = {}
          /\ (saves[j].ckpts \cup saves[k].ckpts) \subseteq DOMAIN fs

\* Every loss contribution made so far: those accumulated on a network and
\* those an optimizer step has applied.
AllContributions ==
    UNION {grad[n] : n \in Nets}
        \cup UNION {UNION {params[n][k] : k \in 1..Len(params[n])} : n \in Nets}

\* The label a loss is meant to be computed against.
IntendedLabel(loss) == IF loss = "errD_fake" THEN 0 ELSE 1

\* The number of batches of one epoch, from the sizes alone.
BatchesPerEpoch ==
    CHOOSE m \in 1..dataset_size :
        m * batch_size >= dataset_size /\ (m - 1) * batch_size < dataset_size

\* The number of samples of the b-th batch fetched (b counted from 1):
\* batch_size, except for a shorter last batch of an epoch.
SamplesOfBatch(b) ==
    LET i == (b - 1) % BatchesPerEpoch
    IN  IF (i + 1) * batch_size <= dataset_size
        THEN batch_size
        ELSE dataset_size - i * batch_size

InBatch == pc \in {"errD_real", "errD_fake", "optimizerD", "zero_grad_G", "errG",
                   "optimizerG", "log", "save"}

\* C11: real is 1 and fake is 0; every loss was computed against a label
\* buffer holding the intended value (1 for errD_real, 0 for errD_fake, 1 for
\* errG) with as many entries as its batch has samples, and inside a batch
\* the buffer has the size of that batch and, where a loss is about to be
\* computed from it, the intended value.
C11_LabelBuffer ==
    /\ real_label = 1 /\ fake_label = 0
    /\ \A c \in AllContributions :
          /\ c.target = IntendedLabel(c.loss)
          /\ c.size = SamplesOfBatch(c.batch)
    /\ InBatch => label.size = SamplesOfBatch(batches)
    /\ pc \in {"errD_real", "errG"} => label.value = 1
    /\ pc = "optimizerD" => label.value = 0

\* C11 witness: the three losses of a shorter last batch have been computed,
\* after a full batch.
C11_Witness ==
    /\ pc = "optimizerG"
    /\ batches = 2
    /\ label.size < batch_size
    /\ \E c \in grad["netD"] : c.loss = "errD_fake" /\ c.batch = 2
    /\ \E c \in grad["netG"] : c.loss = "errG" /\ c.batch = 2

\* C12: a run without dry-run never fetches more than E*B batches, and ends
\* having made exactly E*B discriminator steps and E*B generator steps.
C12_RunsAllEpochs ==
    ~dry_run =>
        /\ [](batches <= niter * BatchesPerEpoch)
        /\ <>[](/\ pc = "done"
                /\ CountSteps("optimizerD.step") = niter * BatchesPerEpoch
                /\ CountSteps("optimizerG.step") = niter * BatchesPerEpoch)

\* C12 witness: a run of several epochs of several batches has ended.
C12_Witness ==
    /\ ~dry_run /\ pc = "done"
    /\ niter > 1 /\ BatchesPerEpoch > 1
    /\ batches = niter * BatchesPerEpoch
    /\ batch_size * BatchesPerEpoch > dataset_size

\* The losses and batches of a set of contributions.
LossesOf(g) == {<<c.loss, c.batch>> : c \in g}

\* C14: the k-th discriminator step applies exactly the real-batch and
\* fake-batch losses of batch k, the k-th generator step applies exactly the
\* generator loss of batch k, and what the generator loss of an earlier
\* batch left on the discriminator is gone when the discriminator's backward
\* passes of a batch start.
C14_GradientsOfTheBatch ==
    /\ \A k \in 1..Len(params["netD"]) :
          LossesOf(params["netD"][k]) = {<<"errD_real", k>>, <<"errD_fake", k>>}
    /\ \A k \in 1..Len(params["netG"]) :
          LossesOf(params["netG"][k]) = {<<"errG", k>>}
    /\ pc = "errD_real" => grad["netD"] = {}
    /\ pc \in {"errD_fake", "optimizerD"} =>
          \A c \in grad["netD"] : c.batch = batches /\ c.loss # "errG"
    /\ pc = "errG" => grad["netG"] = {}

\* C14 witness: the discriminator step of a second batch has been applied
\* after the generator loss of the first batch had left its gradient on the
\* discriminator, and the second generator loss has done so again.
C14_Witness ==
    /\ pc = "optimizerG"
    /\ Len(params["netD"]) = 2
    /\ <<"errG", 2>> \in LossesOf(grad["netD"])
    /\ <<"errG", 1>> \notin LossesOf(params["netD"][2])

\* The entries of the scalar log with one of the five per-batch tags.
IsBatchTag(e) == \E k \in 1..Len(BatchTags) : BatchTags[k] = e[1]
BatchLog == SelectSeq(writer, IsBatchTag)

\* The number of batches whose scalars have been logged.
BatchesLogged == IF pc \in {"save", "for_batch", "for_epoch", "done"}
                 THEN batches
                 ELSE IF batches = 0 THEN 0 ELSE batches - 1

\* C15: the per-batch log is the five tags, once each and in order, with
\* step 0 for the first batch, 1 for the second and so on across epochs; a
\* batch is logged only after both of its optimizer steps.
C15_MetricLog ==
    /\ Len(BatchLog) = 5 * BatchesLogged
    /\ \A j \in 1..Len(BatchLog) :
          BatchLog[j] = <<BatchTags[((j - 1) % 5) + 1], (j - 1) \div 5>>
    /\ 3 * BatchesLogged <= Len(steps)

\* C15 witness: the first batch of a second epoch has been logged, in a run
\* of several batches per epoch.
C15_Witness ==
    /\ pc = "save" /\ epoch = 2 /\ i_step = 0
    /\ LenDataloader > 1
    /\ Len(BatchLog) = 5 * batches

\* C13: when construction with download enabled gets to the download step,
\* the remote download is performed exactly if at least one of the four
\* label files was absent.
C13_DownloadWhenAbsent ==
    (ds_pc # "new" /\ download /\ error # "RuntimeError")
        => (downloaded <=> absent_at_check)
====
